---- MODULE Spec2Model ----
(***************************************************************************)
(* Media-annotation viewer: the request controller of App.tsx, the         *)
(* playback controller of VideoPlayer.tsx and the timecode utilities of    *)
(* utils.ts (src/unnamed/part_001).                                        *)
(*                                                                         *)
(* These specifications share the module's variables:                      *)
(*   SpecIndex   - the pure annotation lookup (timeToSecs + binary search) *)
(*   SpecUtils   - timeToSecs, generateSrt and formatCopyToClipboard       *)
(*   SpecPlayer  - the VideoPlayer component and the media element         *)
(*   SpecUpload  - handleFileUpload and uploadFile with every poll state   *)
(*   Spec        - the App component: annotation requests and uploads      *)
(*   SpecSidebar - the App component with every mode and audio files       *)
(*   FairSpec, FairSpecUpload - Spec and SpecUpload with answered calls    *)
(***************************************************************************)
EXTENDS Integers, Sequences, FiniteSets, TLC

(***************************************************************************)
(* Bounds of the model.                                                    *)
(***************************************************************************)
\* longest annotation list enumerated by SpecIndex
MaxLen == 3
\* largest playback position (seconds) enumerated
MaxPos == 4
\* number of media files the user uploads
MaxUploads == 2
\* duration, in seconds, of every uploaded media
MediaDuration == 2
\* play/pause events the element has queued and not yet dispatched
MaxEvents == 2
\* onModeSelect invocations that start a request
MaxRequests == 2
\* largest value of the millisecond clock
MaxClock == 2
\* longest record list handed to the utilities by SpecUtils
MaxRecords == 2

(***************************************************************************)
(* JavaScript values.  null is the empty option, a present value a         *)
(* one-element sequence.  A JS number is NaN, +-Infinity or a rational     *)
(* n/d in lowest terms with d > 0.                                         *)
(***************************************************************************)
Null == <<>>
Some(x) == <<x>>
IsNull(o) == o = <<>>
Val(o) == o[1]

NaN == [k |-> "nan", n |-> 0, d |-> 1]
Fin(i) == [k |-> "fin", n |-> i, d |-> 1]
Inf(sign) == [k |-> "inf", n |-> sign, d |-> 1]
IsNaN(x) == x.k = "nan"
IsFin(x) == x.k = "fin"

Abs(i) == IF i < 0 THEN -i ELSE i
Sign(i) == IF i < 0 THEN -1 ELSE IF i > 0 THEN 1 ELSE 0

RECURSIVE Gcd(_, _)
Gcd(a, b) == IF b = 0 THEN a ELSE Gcd(b, a % b)

\* the rational n/d (d # 0) in lowest terms
Rat(n, d) ==
  LET g == Gcd(Abs(n), Abs(d))
      s == IF d < 0 THEN -1 ELSE 1
  IN [k |-> "fin", n |-> (s * n) \div g, d |-> (s * d) \div g]

\* a <= b on JS numbers: false as soon as one side is NaN
NumLeq(a, b) ==
  /\ ~IsNaN(a)
  /\ ~IsNaN(b)
  /\ IF IsFin(a) /\ IsFin(b) THEN a.n * b.d <= b.n * a.d
     ELSE IF IsFin(a) THEN b.n > 0
     ELSE IF IsFin(b) THEN a.n < 0
     ELSE a.n <= b.n

\* a * b on finite JS numbers (NaN propagates)
NumMul(a, b) ==
  IF IsNaN(a) \/ IsNaN(b) THEN NaN
  ELSE IF IsFin(a) /\ IsFin(b) THEN Rat(a.n * b.n, a.d * b.d)
  ELSE IF Sign(a.n) * Sign(b.n) = 0 THEN NaN
  ELSE Inf(Sign(a.n) * Sign(b.n))

\* a + b on JS numbers
NumAdd(a, b) ==
  IF IsNaN(a) \/ IsNaN(b) THEN NaN
  ELSE IF IsFin(a) /\ IsFin(b) THEN Rat(a.n * b.d + b.n * a.d, a.d * b.d)
  ELSE IF IsFin(a) THEN b
  ELSE IF IsFin(b) THEN a
  ELSE IF a.n = b.n THEN a ELSE NaN

\* a / b on JS numbers: 0/0 is NaN, x/0 is +-Infinity
NumDiv(a, b) ==
  IF IsNaN(a) \/ IsNaN(b) THEN NaN
  ELSE IF IsFin(a) /\ IsFin(b) THEN
         IF b.n = 0 THEN (IF a.n = 0 THEN NaN ELSE Inf(Sign(a.n)))
         ELSE Rat(a.n * b.d, a.d * b.n)
  ELSE IF IsFin(b) THEN Inf(Sign(a.n) * (IF b.n < 0 THEN -1 ELSE 1))
  ELSE IF IsFin(a) THEN Fin(0)
  ELSE NaN

\* x || 0 : NaN and 0 are falsy
OrZero(x) == IF IsNaN(x) \/ (IsFin(x) /\ x.n = 0) THEN Fin(0) ELSE x

(***************************************************************************)
(* Timecodes.  A timecode is a number or a string; a string is a sequence  *)
(* of characters over Digits, "-", ":" and the letter "x".                 *)
(***************************************************************************)
Digits == <<"0", "1", "2", "3", "4", "5", "6", "7", "8", "9">>
IsDigit(c) == \E i \in 1..10 : Digits[i] = c
DigitVal(c) == (CHOOSE i \in 1..10 : Digits[i] = c) - 1

NumTC(i) == [type |-> "number", num |-> Fin(i), str |-> <<>>]
StrTC(s) == [type |-> "string", num |-> NaN, str |-> s]

\* number of leading decimal digits of s
RECURSIVE DigitPrefix(_)
DigitPrefix(s) ==
  IF s = <<>> \/ ~IsDigit(Head(s)) THEN 0 ELSE 1 + DigitPrefix(Tail(s))

RECURSIVE DecVal(_, _)
DecVal(s, n) ==
  IF n = 0 THEN 0 ELSE 10 * DecVal(s, n - 1) + DigitVal(s[n])

\* parseFloat on the model's alphabet: an optional sign and the longest
\* digit prefix; NaN when there is no digit
ParseFloat(s) ==
  LET neg == s # <<>> /\ Head(s) = "-"
      body == IF neg THEN Tail(s) ELSE s
      n == DigitPrefix(body)
  IN IF n = 0 THEN NaN
     ELSE Fin((IF neg THEN -1 ELSE 1) * DecVal(body, n))

Includes(s, c) == \E i \in 1..Len(s) : s[i] = c

\* String.prototype.split(':')
RECURSIVE Split(_)
Split(s) ==
  IF ~Includes(s, ":") THEN <<s>>
  ELSE LET i == CHOOSE j \in 1..Len(s) :
                  s[j] = ":" /\ \A m \in 1..(j - 1) : s[m] # ":"
       IN <<SubSeq(s, 1, i - 1)>> \o Split(SubSeq(s, i + 1, Len(s)))

\* mutant: the first of three components is weighted like minutes
timeToSecsHoursAsMinutes(tc) ==
  IF tc.type = "number" THEN tc.num
  ELSE IF ~Includes(tc.str, ":") THEN ParseFloat(tc.str)
  ELSE LET parts == Split(tc.str)
           split == [i \in 1..Len(parts) |-> ParseFloat(parts[i])]
       IN IF \E i \in 1..Len(split) : IsNaN(split[i]) THEN Fin(0)
          ELSE IF Len(split) = 2
               THEN NumAdd(NumMul(split[1], Fin(60)), split[2])
               ELSE NumAdd(NumAdd(NumMul(split[1], Fin(60)),
                                  NumMul(split[2], Fin(60))),
                           split[3])

\* mutant: a timecode of more than three components falls back to 0
timeToSecsExtraAsZero(tc) ==
  IF tc.type = "number" THEN tc.num
  ELSE IF ~Includes(tc.str, ":") THEN ParseFloat(tc.str)
  ELSE LET parts == Split(tc.str)
           split == [i \in 1..Len(parts) |-> ParseFloat(parts[i])]
       IN IF \E i \in 1..Len(split) : IsNaN(split[i]) THEN Fin(0)
          ELSE IF Len(split) > 3 THEN Fin(0)
          ELSE IF Len(split) = 2
               THEN NumAdd(NumMul(split[1], Fin(60)), split[2])
               ELSE NumAdd(NumAdd(NumMul(split[1], Fin(3600)),
                                  NumMul(split[2], Fin(60))),
                           split[3])

\* timeToSecs 333-350
timeToSecs(tc) ==
  IF tc.type = "number" THEN tc.num
  ELSE IF ~Includes(tc.str, ":") THEN ParseFloat(tc.str)
  ELSE LET parts == Split(tc.str)
           split == [i \in 1..Len(parts) |-> ParseFloat(parts[i])]
       IN IF \E i \in 1..Len(split) : IsNaN(split[i]) THEN Fin(0)
          ELSE IF Len(split) = 2
               THEN NumAdd(NumMul(split[1], Fin(60)), split[2])
               ELSE NumAdd(NumAdd(NumMul(split[1], Fin(3600)),
                                  NumMul(split[2], Fin(60))),
                           split[3])

(***************************************************************************)
(* Annotation records (types.ts shapes as used by the player).             *)
(***************************************************************************)
TextRec(tc, txt) == [time |-> tc, text |-> txt]
ValueRec(tc, v) == [time |-> tc, value |-> v]
HasText(r) == "text" \in DOMAIN r

(***************************************************************************)
(* Number formatting of utils.ts (src/unnamed/part_001 357-368).  The      *)
(* numbers of the model are integers and odd multiples of 1/2, on which    *)
(* IEEE doubles and rationals agree.                                       *)
(***************************************************************************)
\* Math.floor
Floor(x) == IF IsFin(x) THEN Fin(x.n \div x.d) ELSE x

\* a - b
NumSub(a, b) == NumAdd(a, NumMul(Fin(-1), b))

\* Math.trunc: toward zero
Trunc(x) ==
  IF ~IsFin(x) THEN x
  ELSE IF x.n >= 0 THEN Fin(x.n \div x.d) ELSE Fin(-((-x.n) \div x.d))

\* a % b: NaN for an infinite dividend or a zero divisor, the dividend for
\* an infinite divisor, else the remainder with the sign of the dividend
NumMod(a, b) ==
  IF IsNaN(a) \/ IsNaN(b) \/ ~IsFin(a) THEN NaN
  ELSE IF ~IsFin(b) THEN a
  ELSE IF b.n = 0 THEN NaN
  ELSE NumSub(a, NumMul(b, Trunc(NumDiv(a, b))))

\* decimal digits of a natural number
RECURSIVE NatToString(_)
NatToString(n) ==
  IF n < 10 THEN <<Digits[n + 1]>>
  ELSE NatToString(n \div 10) \o <<Digits[(n % 10) + 1]>>

\* Number.prototype.toString / template-literal conversion
NumToString(x) ==
  IF IsNaN(x) THEN <<"N", "a", "N">>
  ELSE IF ~IsFin(x)
  THEN (IF x.n < 0 THEN <<"-">> ELSE <<>>)
         \o <<"I", "n", "f", "i", "n", "i", "t", "y">>
  ELSE LET a == Abs(x.n)
           sign == IF x.n < 0 THEN <<"-">> ELSE <<>>
       IN IF x.d = 1 THEN sign \o NatToString(a)
          ELSE sign \o NatToString(a \div x.d) \o <<".", "5">>

\* String.prototype.padStart with a one-character filler
RECURSIVE padStart(_, _, _)
padStart(s, n, c) == IF Len(s) >= n THEN s ELSE padStart(<<c>> \o s, n, c)

\* formatSrtTime 357-368: HH:MM:SS,mmm
formatSrtTime(secs) ==
  LET hours == Floor(NumDiv(secs, Fin(3600)))
      minutes == Floor(NumDiv(NumMod(secs, Fin(3600)), Fin(60)))
      seconds == Floor(NumMod(secs, Fin(60)))
      milliseconds == Floor(NumMul(NumSub(secs, Floor(secs)), Fin(1000)))
  IN padStart(NumToString(hours), 2, "0") \o <<":">>
       \o padStart(NumToString(minutes), 2, "0") \o <<":">>
       \o padStart(NumToString(seconds), 2, "0") \o <<",">>
       \o padStart(NumToString(milliseconds), 3, "0")

\* Array.prototype.join
RECURSIVE Join(_, _)
Join(parts, sep) ==
  IF parts = <<>> THEN <<>>
  ELSE IF Len(parts) = 1 THEN parts[1]
  ELSE parts[1] \o sep \o Join(Tail(parts), sep)

\* `${item.time}`: a string as it is, a number through toString
TimeToString(tc) == IF tc.type = "number" THEN NumToString(tc.num) ELSE tc.str

\* mutant: every block ends at the total duration
generateSrtEndAtDuration(timecodes, totalDuration) ==
  LET block(index) ==
        LET item == timecodes[index]
            startTime == timeToSecs(item.time)
        IN NatToString(index) \o <<"\n">>
             \o formatSrtTime(startTime) \o <<" ", "-", "-", ">", " ">>
             \o formatSrtTime(totalDuration) \o <<"\n">>
             \o item.text \o <<"\n">>
  IN Join([index \in 1..Len(timecodes) |-> block(index)], <<"\n">>)

\* mutant: the document always ends with a line terminator
generateSrtTerminated(timecodes, totalDuration) ==
  LET block(index) ==
        LET item == timecodes[index]
            startTime == timeToSecs(item.time)
            endTime == IF index < Len(timecodes)
                       THEN timeToSecs(timecodes[index + 1].time)
                       ELSE totalDuration
        IN NatToString(index) \o <<"\n">>
             \o formatSrtTime(startTime) \o <<" ", "-", "-", ">", " ">>
             \o formatSrtTime(endTime) \o <<"\n">>
             \o item.text
  IN Join([index \in 1..Len(timecodes) |-> block(index)], <<"\n", "\n">>)
       \o <<"\n">>

\* generateSrt 376-394; index is 1-based here, so the block number is index
generateSrt(timecodes, totalDuration) ==
  LET block(index) ==
        LET item == timecodes[index]
            startTime == timeToSecs(item.time)
            endTime == IF index < Len(timecodes)
                       THEN timeToSecs(timecodes[index + 1].time)
                       ELSE totalDuration
        IN NatToString(index) \o <<"\n">>
             \o formatSrtTime(startTime) \o <<" ", "-", "-", ">", " ">>
             \o formatSrtTime(endTime) \o <<"\n">>
             \o item.text \o <<"\n">>
  IN Join([index \in 1..Len(timecodes) |-> block(index)], <<"\n">>)

\* mutant: the time is written as the parsed number of seconds
formatCopyToClipboardParsed(timecodes, type) ==
  IF type = "textOnly"
  THEN Join([i \in 1..Len(timecodes) |-> timecodes[i].text], <<"\n">>)
  ELSE Join([i \in 1..Len(timecodes) |->
               NumToString(timeToSecs(timecodes[i].time))
                 \o <<" ", "-", " ">> \o timecodes[i].text],
            <<"\n">>)

\* formatCopyToClipboard 402-411
formatCopyToClipboard(timecodes, type) ==
  IF type = "textOnly"
  THEN Join([i \in 1..Len(timecodes) |-> timecodes[i].text], <<"\n">>)
  ELSE Join([i \in 1..Len(timecodes) |->
               TimeToString(timecodes[i].time) \o <<" ", "-", " ">>
                 \o timecodes[i].text],
            <<"\n">>)

(***************************************************************************)
(* State.                                                                  *)
(***************************************************************************)
VARIABLES
  \* SpecUtils: the records and total duration handed to the utilities, the
  \* utility applied last and its result (a number or a string)
  utilTimecodes, utilDuration, utilOp, utilSecs, utilText,
  \* SpecIndex: one annotation list, the queried position and the lookup
  idxList, idxPos, idxBest, idxQueried,
  \* App.tsx: media state (useState / useRef of App)
  vidUrl, file, mediaType, isLoadingVideo, videoError, uploadProgress,
  videoDuration,
  \* App.tsx: uploadFile invocations that have not settled yet
  uploads,
  \* history: for each object URL, the value its uploadFile invocation
  \* passed to onProgress last (null before the first call)
  onProgress,
  \* App.tsx: annotation state
  timecodeList, textResponse, apiError, isLoading, activeMode,
  \* App.tsx: the mode chosen in the sidebar
  selectedMode,
  requestedTimecode,
  \* clicks on timecode markers, table rows and list items so far, modulo 2
  clicks,
  \* App.tsx: latestRequestRef.current, the clock read by Date.now() and
  \* the onModeSelect invocations that have not returned yet
  latestRequestRef, now, requests,
  \* VideoPlayer.tsx: component state
  duration, scrubberTime, isPlaying, isScrubbing, currentCaption,
  \* history: the playing flag when the current scrub began (pointer down)
  playingBeforeScrub,
  \* the <video> element behind videoRef: position, duration (NaN until the
  \* metadata is loaded), paused flag, queued play/pause events and the
  \* value last written to its currentTime by the component
  elCurrentTime, elDuration, elPaused, elEvents, seekTarget

utilVars == <<utilTimecodes, utilDuration, utilOp, utilSecs, utilText>>
idxVars == <<idxList, idxPos, idxBest, idxQueried>>
mediaVars ==
  <<vidUrl, file, mediaType, isLoadingVideo, videoError, uploadProgress,
    videoDuration, uploads, onProgress>>
annVars == <<timecodeList, textResponse, apiError>>
reqVars ==
  <<isLoading, activeMode, selectedMode, latestRequestRef, now, requests>>
playerVars ==
  <<duration, scrubberTime, isPlaying, isScrubbing, currentCaption,
    playingBeforeScrub>>
elVars == <<elCurrentTime, elDuration, elPaused, elEvents, seekTarget>>
jumpVars == <<requestedTimecode, clicks>>
vars ==
  <<utilVars, idxVars, mediaVars, annVars, reqVars, jumpVars, playerVars, elVars>>

(***************************************************************************)
(* Values after construction (the useState / useRef initialisers).         *)
(***************************************************************************)
\* App.tsx 38-65
InitApp ==
  /\ vidUrl = Null
  /\ file = Null
  /\ mediaType = Null
  /\ isLoadingVideo = FALSE
  /\ videoError = Null
  /\ uploadProgress = 0
  /\ videoDuration = Fin(0)
  /\ uploads = {}
  /\ onProgress = [k \in 1..MaxUploads |-> Null]
  /\ timecodeList = Null
  /\ textResponse = Null
  /\ apiError = Null
  /\ isLoading = FALSE
  /\ activeMode = Null
  /\ selectedMode = "A/V captions"  \* Object.keys(modes)[0]
  /\ requestedTimecode = Null
  /\ clicks = 0
  /\ latestRequestRef = 0
  /\ requests = <<>>

\* VideoPlayer.tsx 56-64; no <video> element is rendered yet
InitPlayer ==
  /\ duration = Fin(0)
  /\ scrubberTime = Fin(0)
  /\ isPlaying = FALSE
  /\ isScrubbing = FALSE
  /\ playingBeforeScrub = FALSE
  /\ currentCaption = Null
  /\ elCurrentTime = Fin(0)
  /\ elDuration = NaN
  /\ elPaused = TRUE
  /\ elEvents = <<>>
  /\ seekTarget = Null

\* the utility variables outside SpecUtils
IdleUtils ==
  /\ utilTimecodes = <<>>
  /\ utilDuration = Fin(0)
  /\ utilOp = [op |-> "none", arg |-> 0]
  /\ utilSecs = Fin(0)
  /\ utilText = <<>>

\* the lookup variables outside SpecIndex
IdleIndex ==
  /\ idxList = <<>>
  /\ idxPos = Fin(0)
  /\ idxBest = -1
  /\ idxQueried = FALSE

(***************************************************************************)
(* Annotation lookup of updateTime (VideoPlayer.tsx 133-147).              *)
(***************************************************************************)
\* the while loop: indices are 0-based as in the source, list[mid] is
\* list[mid + 1] here
RECURSIVE SearchLoop(_, _, _, _, _)
SearchLoop(list, currentTime, low, high, bestIndex) ==
  IF low <= high
  THEN LET mid == (low + high) \div 2
           midTime == timeToSecs(list[mid + 1].time)
       IN IF NumLeq(midTime, currentTime)
          THEN SearchLoop(list, currentTime, mid + 1, high, mid)
          ELSE SearchLoop(list, currentTime, low, mid - 1, bestIndex)
  ELSE bestIndex

\* mutant: the comparison is strict, so a record exactly at the position
\* is not selected
RECURSIVE SearchLoopStrict(_, _, _, _, _)
SearchLoopStrict(list, currentTime, low, high, bestIndex) ==
  IF low <= high
  THEN LET mid == (low + high) \div 2
           midTime == timeToSecs(list[mid + 1].time)
       IN IF NumLeq(midTime, currentTime) /\ midTime # currentTime
          THEN SearchLoopStrict(list, currentTime, mid + 1, high, mid)
          ELSE SearchLoopStrict(list, currentTime, low, mid - 1, bestIndex)
  ELSE bestIndex

BestIndexStrict(list, currentTime) ==
  SearchLoopStrict(list, currentTime, 0, Len(list) - 1, -1)

BestIndex(list, currentTime) ==
  SearchLoop(list, currentTime, 0, Len(list) - 1, -1)

(***************************************************************************)
(* SpecIndex: the lookup applied to every list of at most MaxLen records   *)
(* over IdxTimecodes and every position k/2, 0 <= k <= 2 * MaxPos.         *)
(***************************************************************************)
IdxTimecodes ==
  { NumTC(0), NumTC(2), StrTC(<<"1">>), StrTC(<<"0", ":", "0", "2">>),
    StrTC(<<"0", ":", "0", ":", "0", "3">>), NumTC(MaxPos + 1),
    StrTC(<<"x">>) }

IdxPositions == { Rat(k, 2) : k \in 0..(2 * MaxPos) }

\* the record at (1-based) place i carries the text "r<i>"
IdxTexts == <<"r1", "r2", "r3", "r4", "r5">>
IdxLists ==
  UNION { { [i \in 1..n |-> TextRec(f[i], IdxTexts[i])] :
              f \in [1..n -> IdxTimecodes] } : n \in 0..MaxLen }

InitIndex ==
  /\ idxList \in IdxLists
  /\ idxPos = Fin(0)
  /\ idxBest = -1
  /\ idxQueried = FALSE
  /\ IdleUtils
  /\ InitApp
  /\ InitPlayer
  /\ now = 1

\* one position tick: the lookup part of updateTime
ActiveRecordAt(p) ==
  /\ idxPos' = p
  /\ idxBest' = BestIndex(idxList, p)
  /\ idxQueried' = TRUE
  /\ UNCHANGED <<idxList, mediaVars, annVars, reqVars, jumpVars,
                 playerVars, elVars>>
  /\ UNCHANGED utilVars

NextIndex == \E p \in IdxPositions : ActiveRecordAt(p)

SpecIndex == InitIndex /\ [][NextIndex]_vars

\* ascending by parsed time, ties allowed
SortedByTime(list) ==
  \A i \in 1..(Len(list) - 1) :
    NumLeq(timeToSecs(list[i].time), timeToSecs(list[i + 1].time))

\* linear-scan reference: 0-based index of the last record with time <= p
LinearLast(list, p) ==
  LET hits == { i \in 1..Len(list) : NumLeq(timeToSecs(list[i].time), p) }
  IN IF hits = {} THEN -1
     ELSE (CHOOSE i \in hits : \A j \in hits : j <= i) - 1

\* C3: on every list sorted ascending by parsed time the binary search of
\* updateTime selects the last record, in list order, whose time is <= the
\* position: none (-1) for an empty list or a position before the first
\* time, the last record at or after the last time, the latest of equals.
C3_BinarySearchIsLastLeq ==
  (idxQueried /\ SortedByTime(idxList)) =>
    /\ idxBest = LinearLast(idxList, idxPos)
    /\ (idxList = <<>> => idxBest = -1)
    /\ (idxList # <<>> /\ ~NumLeq(timeToSecs(idxList[1].time), idxPos)
          => idxBest = -1)
    /\ (idxList # <<>>
        /\ NumLeq(timeToSecs(idxList[Len(idxList)].time), idxPos)
          => idxBest = Len(idxList) - 1)

\* C3 witness: a queried sorted list with two records of the same time at
\* the position, the later of which is selected
C3_Witness ==
  /\ idxQueried
  /\ SortedByTime(idxList)
  /\ Len(idxList) = 3
  /\ timeToSecs(idxList[1].time) = timeToSecs(idxList[2].time)
  /\ idxList[1].time # idxList[2].time
  /\ idxPos = timeToSecs(idxList[2].time)
  /\ ~NumLeq(timeToSecs(idxList[3].time), idxPos)
  /\ idxBest = 1

(***************************************************************************)
(* The <video> element (HTMLMediaElement, driven through videoRef).        *)
(***************************************************************************)
\* videoRef.current is set: the <video> branch is rendered
Mounted == ~IsNull(vidUrl) /\ ~isLoadingVideo

\* VideoPlayer.tsx 303-337: the emptyVideo branch is rendered, outside the
\* progress view, and its label shows videoError
VideoErrorShown == ~Mounted /\ ~isLoadingVideo /\ ~IsNull(videoError)

NumMin(a, b) == IF NumLeq(a, b) THEN a ELSE b
NumMax(a, b) == IF NumLeq(a, b) THEN b ELSE a
Clamp(t, lo, hi) == NumMin(NumMax(t, lo), hi)

\* a <video> element that has just been created (or none at all)
FreshElement ==
  /\ elCurrentTime' = Fin(0)
  /\ elDuration' = NaN
  /\ elPaused' = TRUE
  /\ elEvents' = <<>>
  /\ seekTarget' = Null

\* videoRef.current.currentTime = v : the component writes v; the element
\* keeps v as its start position while it has no metadata and otherwise
\* seeks to v limited to its own range
AssignCurrentTime(v) ==
  /\ seekTarget' = Some(v)
  /\ elCurrentTime' =
       IF IsNaN(elDuration) THEN v ELSE Clamp(v, Fin(0), elDuration)

(***************************************************************************)
(* VideoPlayer.tsx: handlers and effects.                                  *)
(***************************************************************************)
\* updateTime 129-156: the caption for the element's position
CaptionAt(list, currentTime) ==
  IF ~IsNull(list) /\ Len(Val(list)) > 0
  THEN LET bestIndex == BestIndex(Val(list), currentTime)
       IN IF bestIndex # -1
          THEN LET current == Val(list)[bestIndex + 1]
               IN IF HasText(current) THEN Some(current.text) ELSE Null
          ELSE Null
  ELSE Null

\* updateTime 125: currentTime / duration || 0 on the element
TickFraction == OrZero(NumDiv(elCurrentTime, elDuration))

\* render 243-244: left offset, in percent, of the marker of item
MarkerPct(item) ==
  NumMul(NumDiv(timeToSecs(item.time), duration), Fin(100))

\* mutant: the tick moves the scrubber even while the user is scrubbing
ScrubberOnTickUnguarded(scrubbing, old, ratio) == ratio

\* updateTime 123-127
ScrubberOnTick(scrubbing, old, ratio) ==
  IF ~scrubbing THEN ratio ELSE old

\* onTimeUpdate
updateTime ==
  /\ Mounted
  /\ scrubberTime' =
       ScrubberOnTick(isScrubbing, scrubberTime, TickFraction)
  /\ currentCaption' = CaptionAt(timecodeList, elCurrentTime)
  /\ UNCHANGED <<duration, isPlaying, isScrubbing, playingBeforeScrub>>
  /\ UNCHANGED <<utilVars, idxVars, mediaVars, annVars, reqVars, jumpVars,
                 elVars>>

\* onDurationChange: the element has loaded its metadata; updateDuration
updateDuration ==
  /\ Mounted
  /\ IsNaN(elDuration)
  /\ elDuration' = Fin(MediaDuration)
  /\ elCurrentTime' = Clamp(elCurrentTime, Fin(0), Fin(MediaDuration))
  /\ duration' = OrZero(Fin(MediaDuration))
  /\ videoDuration' = OrZero(Fin(MediaDuration))
  /\ UNCHANGED <<elPaused, elEvents, seekTarget>>
  /\ UNCHANGED <<scrubberTime, isPlaying, isScrubbing, currentCaption,
                 playingBeforeScrub>>
  /\ UNCHANGED <<vidUrl, file, mediaType, isLoadingVideo, videoError,
                 uploadProgress, uploads, onProgress>>
  /\ UNCHANGED <<utilVars, idxVars, annVars, reqVars, jumpVars>>

\* togglePlay 72-79: pause() when the flag is set, play() otherwise; the
\* element queues the matching event only when its paused flag changes, and
\* play() at the end of the media restarts from 0
togglePlay ==
  /\ Mounted
  /\ Len(elEvents) < MaxEvents
  /\ IF isPlaying
     THEN /\ elPaused' = TRUE
          /\ elEvents' = IF elPaused THEN elEvents
                         ELSE Append(elEvents, "pause")
          /\ UNCHANGED elCurrentTime
     ELSE /\ elPaused' = FALSE
          /\ elEvents' = IF elPaused THEN Append(elEvents, "play")
                         ELSE elEvents
          /\ elCurrentTime' =
               IF elPaused /\ elCurrentTime = elDuration THEN Fin(0)
               ELSE elCurrentTime
  /\ UNCHANGED <<elDuration, seekTarget>>
  /\ UNCHANGED <<utilVars, idxVars, mediaVars, annVars, reqVars, jumpVars,
                 playerVars>>

\* onPlay 159
onPlay ==
  /\ Mounted
  /\ elEvents # <<>>
  /\ Head(elEvents) = "play"
  /\ elEvents' = Tail(elEvents)
  /\ isPlaying' = TRUE
  /\ UNCHANGED <<elCurrentTime, elDuration, elPaused, seekTarget>>
  /\ UNCHANGED <<duration, scrubberTime, isScrubbing, currentCaption,
                 playingBeforeScrub>>
  /\ UNCHANGED <<utilVars, idxVars, mediaVars, annVars, reqVars, jumpVars>>

\* onPause 160
onPause ==
  /\ Mounted
  /\ elEvents # <<>>
  /\ Head(elEvents) = "pause"
  /\ elEvents' = Tail(elEvents)
  /\ isPlaying' = FALSE
  /\ UNCHANGED <<elCurrentTime, elDuration, elPaused, seekTarget>>
  /\ UNCHANGED <<duration, scrubberTime, isScrubbing, currentCaption,
                 playingBeforeScrub>>
  /\ UNCHANGED <<utilVars, idxVars, mediaVars, annVars, reqVars, jumpVars>>

\* the element plays on by one second
Playback ==
  /\ Mounted
  /\ ~elPaused
  /\ IsFin(elDuration)
  /\ elCurrentTime # elDuration
  /\ elCurrentTime' = NumAdd(elCurrentTime, Fin(1))
  /\ UNCHANGED <<elDuration, elPaused, elEvents, seekTarget>>
  /\ UNCHANGED <<utilVars, idxVars, mediaVars, annVars, reqVars, jumpVars,
                 playerVars>>

\* the element reaches the end of the media while playing: it pauses itself
\* and queues a pause event
PlaybackEnded ==
  /\ Mounted
  /\ ~elPaused
  /\ elCurrentTime = elDuration
  /\ Len(elEvents) < MaxEvents
  /\ elPaused' = TRUE
  /\ elEvents' = Append(elEvents, "pause")
  /\ UNCHANGED <<elCurrentTime, elDuration, seekTarget>>
  /\ UNCHANGED <<utilVars, idxVars, mediaVars, annVars, reqVars, jumpVars,
                 playerVars>>

\* values of the range input: k / MediaDuration
ScrubberValues == { Rat(k, MediaDuration) : k \in 0..MediaDuration }

\* scrubber onChange 230-236
ScrubberChange(newScrubberTime) ==
  /\ Mounted
  /\ scrubberTime' = newScrubberTime
  /\ AssignCurrentTime(NumMul(newScrubberTime, duration))
  /\ UNCHANGED <<elDuration, elPaused, elEvents>>
  /\ UNCHANGED <<duration, isPlaying, isScrubbing, currentCaption,
                 playingBeforeScrub>>
  /\ UNCHANGED <<utilVars, idxVars, mediaVars, annVars, reqVars, jumpVars>>

\* onPointerDown 237
onPointerDown ==
  /\ Mounted
  /\ isScrubbing' = TRUE
  /\ playingBeforeScrub' = IF isScrubbing THEN playingBeforeScrub
                           ELSE isPlaying
  /\ UNCHANGED <<duration, scrubberTime, isPlaying, currentCaption>>
  /\ UNCHANGED <<utilVars, idxVars, mediaVars, annVars, reqVars, jumpVars,
                 elVars>>

\* mutant: releasing the scrubber pauses the controller
onPointerUpPauses ==
  /\ Mounted
  /\ isScrubbing' = FALSE
  /\ isPlaying' = FALSE
  /\ UNCHANGED <<duration, scrubberTime, currentCaption,
                 playingBeforeScrub>>
  /\ UNCHANGED <<utilVars, idxVars, mediaVars, annVars, reqVars, jumpVars,
                 elVars>>

\* onPointerUp 238
onPointerUp ==
  /\ Mounted
  /\ isScrubbing' = FALSE
  /\ UNCHANGED playingBeforeScrub
  /\ UNCHANGED <<duration, scrubberTime, isPlaying, currentCaption>>
  /\ UNCHANGED <<utilVars, idxVars, mediaVars, annVars, reqVars, jumpVars,
                 elVars>>

\* jumpToTimecode / setRequestedTimecode with the parsed time of record i
\* (marker tick, table row, list item), then the effect on
\* [requestedTimecode] 168-172.  Setting the state to the value it already
\* holds re-renders nothing and runs no effect.
jumpToTimecode(i) ==
  /\ ~IsNull(timecodeList)
  /\ i \in 1..Len(Val(timecodeList))
  /\ IF Mounted THEN TRUE ELSE HasText(Val(timecodeList)[i])
  /\ LET secs == timeToSecs(Val(timecodeList)[i].time)
     IN /\ requestedTimecode' = Some(secs)
        /\ clicks' = 1 - clicks
        /\ IF requestedTimecode' # requestedTimecode /\ Mounted
           THEN AssignCurrentTime(secs)
           ELSE UNCHANGED <<elCurrentTime, seekTarget>>
  /\ UNCHANGED <<elDuration, elPaused, elEvents>>
  /\ UNCHANGED <<utilVars, idxVars, mediaVars, annVars, reqVars, playerVars>>

\* mutant: the effect forgets the playing flag
UrlEffectKeepsPlaying ==
  /\ scrubberTime' = Fin(0)
  /\ currentCaption' = Null
  /\ UNCHANGED isPlaying

\* useEffect on [url] 162-166
UrlEffect ==
  /\ scrubberTime' = Fin(0)
  /\ isPlaying' = FALSE
  /\ currentCaption' = Null

(***************************************************************************)
(* App.tsx: handleFileUpload and the uploadFile it awaits (api.ts,         *)
(* src/unnamed/part_000).                                                  *)
(***************************************************************************)
InvalidFileMessage == "Invalid file type. Please upload a video or audio file."
ProcessingFailedMessage == "File processing failed."
UploadErrorMessage == "upload error"

FileTypes == {"video", "audio", "other"}
FileStates == {"PROCESSING", "ACTIVE", "FAILED"}

\* URL.createObjectURL: a URL never handed out before
NewUrl == IF IsNull(vidUrl) THEN 1 ELSE Val(vidUrl) + 1

\* mutant: a file of an invalid type also drops the file handle and the
\* annotations
handleFileUploadInvalidClears(type) ==
  IF type \notin {"video", "audio"}
  THEN /\ videoError' = Some(InvalidFileMessage)
       /\ file' = Null
       /\ timecodeList' = Null
       /\ UNCHANGED <<vidUrl, mediaType, isLoadingVideo,
                      uploadProgress, videoDuration, uploads, onProgress>>
       /\ UNCHANGED <<textResponse, apiError>>
       /\ UNCHANGED <<utilVars, idxVars, reqVars, jumpVars,
                      playerVars, elVars>>
  ELSE /\ NewUrl <= MaxUploads
       /\ isLoadingVideo' = TRUE
       /\ videoError' = Null
       /\ file' = Null
       /\ timecodeList' = Null
       /\ textResponse' = Null
       /\ apiError' = Null
       /\ videoDuration' = Fin(0)
       /\ mediaType' = Some(type)
       /\ vidUrl' = Some(NewUrl)
       /\ uploadProgress' = 10
       /\ onProgress' = [onProgress EXCEPT ![NewUrl] = Some(10)]
       /\ uploads' = uploads \cup {[url |-> NewUrl, pc |-> "upload",
                                    progress |-> 50]}
       /\ UrlEffect
       /\ FreshElement
       /\ UNCHANGED <<duration, isScrubbing, playingBeforeScrub>>
       /\ UNCHANGED <<utilVars, idxVars, reqVars, jumpVars>>

\* handleFileUpload 178-212 up to the first await inside uploadFile
\* (part_000 60-63), with the re-render it causes: the <video> element is
\* unmounted and the effect on [url] runs
handleFileUpload(type) ==
  IF type \notin {"video", "audio"}
  THEN /\ videoError' = Some(InvalidFileMessage)
       /\ UNCHANGED <<vidUrl, file, mediaType, isLoadingVideo,
                      uploadProgress, videoDuration, uploads, onProgress>>
       /\ UNCHANGED <<utilVars, idxVars, annVars, reqVars, jumpVars,
                      playerVars, elVars>>
  ELSE /\ NewUrl <= MaxUploads
       /\ isLoadingVideo' = TRUE
       /\ videoError' = Null
       /\ file' = Null
       /\ timecodeList' = Null
       /\ textResponse' = Null
       /\ apiError' = Null
       /\ videoDuration' = Fin(0)
       /\ mediaType' = Some(type)
       /\ vidUrl' = Some(NewUrl)
       /\ uploadProgress' = 10
       /\ onProgress' = [onProgress EXCEPT ![NewUrl] = Some(10)]
       /\ uploads' = uploads \cup {[url |-> NewUrl, pc |-> "upload",
                                    progress |-> 50]}
       /\ UrlEffect
       /\ FreshElement
       /\ UNCHANGED <<duration, isScrubbing, playingBeforeScrub>>
       /\ UNCHANGED <<utilVars, idxVars, reqVars, jumpVars>>

\* handleFileUpload 217-220: finally
UploadFinally ==
  /\ isLoadingVideo' = FALSE
  /\ uploadProgress' = 0

\* client.files.upload resolves (part_000 63-74)
UploadResolved(u) ==
  /\ u \in uploads
  /\ u.pc = "upload"
  /\ uploadProgress' = 50
  /\ onProgress' = [onProgress EXCEPT ![u.url] = Some(50)]
  /\ uploads' = (uploads \ {u}) \cup {[u EXCEPT !.pc = "get"]}
  /\ UNCHANGED <<vidUrl, file, mediaType, isLoadingVideo, videoError,
                 videoDuration>>
  /\ UNCHANGED <<utilVars, idxVars, annVars, reqVars, jumpVars, playerVars,
                 elVars>>

\* mutant: the progress of the polling loop is not capped
GetResolvedUncapped(u, st) ==
  /\ u \in uploads
  /\ u.pc = "get"
  /\ IF st = "PROCESSING"
     THEN LET progress == u.progress + 5
          IN /\ uploadProgress' = progress
             /\ onProgress' = [onProgress EXCEPT ![u.url] = Some(progress)]
             /\ uploads' = (uploads \ {u})
                             \cup {[u EXCEPT !.progress = progress]}
             /\ UNCHANGED <<file, isLoadingVideo, videoError>>
     ELSE /\ uploads' = uploads \ {u}
          /\ UploadFinally
          /\ IF st = "FAILED"
             THEN /\ onProgress' = [onProgress EXCEPT ![u.url] = Some(0)]
                  /\ videoError' = Some(ProcessingFailedMessage)
                  /\ UNCHANGED file
             ELSE /\ onProgress' = [onProgress EXCEPT ![u.url] = Some(100)]
                  /\ file' = Some(u.url)
                  /\ UNCHANGED videoError
  /\ UNCHANGED <<vidUrl, mediaType, videoDuration>>
  /\ UNCHANGED <<utilVars, idxVars, annVars, reqVars, jumpVars, playerVars,
                 elVars>>

\* mutant: the polling loop gives up once the progress has reached its cap
GetResolvedBounded(u, st) ==
  /\ u \in uploads
  /\ u.pc = "get"
  /\ IF st = "PROCESSING" /\ u.progress < 95
     THEN LET progress == IF u.progress + 5 < 95 THEN u.progress + 5 ELSE 95
          IN /\ uploadProgress' = progress
             /\ onProgress' = [onProgress EXCEPT ![u.url] = Some(progress)]
             /\ uploads' = (uploads \ {u})
                             \cup {[u EXCEPT !.progress = progress]}
             /\ UNCHANGED <<file, isLoadingVideo, videoError>>
     ELSE /\ uploads' = uploads \ {u}
          /\ UploadFinally
          /\ IF st \in {"FAILED", "PROCESSING"}
             THEN /\ onProgress' = [onProgress EXCEPT ![u.url] = Some(0)]
                  /\ videoError' = Some(ProcessingFailedMessage)
                  /\ UNCHANGED file
             ELSE /\ onProgress' = [onProgress EXCEPT ![u.url] = Some(100)]
                  /\ file' = Some(u.url)
                  /\ UNCHANGED videoError
  /\ UNCHANGED <<vidUrl, mediaType, videoDuration>>
  /\ UNCHANGED <<utilVars, idxVars, annVars, reqVars, jumpVars, playerVars,
                 elVars>>

\* client.files.get resolves with state st (part_000 72-95, App 213-220);
\* the 2 s timer and the next get are one wait
GetResolved(u, st) ==
  /\ u \in uploads
  /\ u.pc = "get"
  /\ IF st = "PROCESSING"
     THEN LET progress == IF u.progress + 5 < 95 THEN u.progress + 5 ELSE 95
          IN /\ uploadProgress' = progress
             /\ onProgress' = [onProgress EXCEPT ![u.url] = Some(progress)]
             /\ uploads' = (uploads \ {u})
                             \cup {[u EXCEPT !.progress = progress]}
             /\ UNCHANGED <<file, isLoadingVideo, videoError>>
     ELSE /\ uploads' = uploads \ {u}
          /\ UploadFinally
          /\ IF st = "FAILED"
             THEN /\ onProgress' = [onProgress EXCEPT ![u.url] = Some(0)]
                  /\ videoError' = Some(ProcessingFailedMessage)
                  /\ UNCHANGED file
             ELSE /\ onProgress' = [onProgress EXCEPT ![u.url] = Some(100)]
                  /\ file' = Some(u.url)
                  /\ UNCHANGED videoError
  /\ UNCHANGED <<vidUrl, mediaType, videoDuration>>
  /\ UNCHANGED <<utilVars, idxVars, annVars, reqVars, jumpVars, playerVars,
                 elVars>>

\* client.files.upload or client.files.get rejects (App 214-220)
UploadRejected(u) ==
  /\ u \in uploads
  /\ uploads' = uploads \ {u}
  /\ videoError' = Some(UploadErrorMessage)
  /\ UploadFinally
  /\ UNCHANGED <<vidUrl, file, mediaType, videoDuration, onProgress>>
  /\ UNCHANGED <<utilVars, idxVars, annVars, reqVars, jumpVars, playerVars,
                 elVars>>

(***************************************************************************)
(* SpecPlayer: the player, with one upload at a time and the annotation    *)
(* list replaced as a whole by the App (setTimecodeList).                  *)
(***************************************************************************)
PlayerLists ==
  { <<>>,
    << TextRec(StrTC(<<"0", ":", "0", "0">>), "a"),
       TextRec(StrTC(<<"0", ":", "0", "1">>), "b"),
       TextRec(NumTC(MediaDuration + 3), "c") >>,
    << ValueRec(StrTC(<<"-", "1">>), 7), ValueRec(NumTC(1), 3) >> }

\* App.tsx 97 and 79-84: the list is cleared or replaced by a response
AnnotationsReplaced(list) ==
  /\ ~IsNull(file)
  /\ timecodeList' = list
  /\ UNCHANGED <<textResponse, apiError>>
  /\ UNCHANGED <<utilVars, idxVars, mediaVars, reqVars, jumpVars, playerVars,
                 elVars>>

InitSpecPlayer ==
  /\ InitApp
  /\ InitPlayer
  /\ IdleIndex
  /\ IdleUtils
  /\ now = 1

NextPlayer ==
  \/ uploads = {} /\ handleFileUpload("video")
  \/ \E u \in uploads : UploadResolved(u)
  \/ \E u \in uploads : \E st \in {"PROCESSING", "ACTIVE"} : GetResolved(u, st)
  \/ \E list \in {Null} \cup { Some(l) : l \in PlayerLists } :
       AnnotationsReplaced(list)
  \/ updateDuration
  \/ updateTime
  \/ togglePlay
  \/ onPlay
  \/ onPause
  \/ Playback
  \/ PlaybackEnded
  \/ \E x \in ScrubberValues : ScrubberChange(x)
  \/ onPointerDown
  \/ onPointerUp
  \/ \E i \in 1..MaxLen : jumpToTimecode(i)

SpecPlayer == InitSpecPlayer /\ [][NextPlayer]_vars

(***************************************************************************)
(* App.tsx: onModeSelect, handleCancel and the generateContent calls.      *)
(* requests lists the invocations of onModeSelect that started a request,  *)
(* in start order: requestId, the file handle of the closure, the object   *)
(* URL shown when it started, the loop counter i, the generateContent      *)
(* calls made so far, whether handleCancel ran while it was in flight and  *)
(* where the invocation stands (awaiting generateContent, awaiting the     *)
(* backoff timer, returned).                                               *)
(***************************************************************************)
UploadFirstMessage == "Please upload a video or audio file first."
NoValidResponseMessage ==
  "The model didn't return a valid response after multiple attempts. Please try a different prompt."
UpstreamErrorMessage == "upstream error"

\* App.tsx 122
maxRetries == 3

\* modes offered by the sidebar (modes.ts); "Custom" shows the prompt
\* textarea, whose Enter key calls onModeSelect whatever isLoading is
Modes == {"A/V captions", "Table", "Custom"}

\* Object.keys(modes)[0]
FirstMode == "A/V captions"

\* setTimecodes 79-84: text.replace(/\\'/g, "'") on the model's texts
SanitizeText(text) == IF text = "it\\'s" THEN "it's" ELSE text
\* mutant: the last record of the response is dropped
setTimecodesTruncated(timecodes) ==
  [j \in 1..(Len(timecodes) - 1) |->
     IF HasText(timecodes[j])
     THEN [timecodes[j] EXCEPT !.text = SanitizeText(timecodes[j].text)]
     ELSE timecodes[j]]

setTimecodes(timecodes) ==
  [j \in 1..Len(timecodes) |->
     IF HasText(timecodes[j])
     THEN [timecodes[j] EXCEPT !.text = SanitizeText(timecodes[j].text)]
     ELSE timecodes[j]]

\* responses of generateContent: functionCalls?.[0] (name, args) and text
ResponseLists ==
  { << TextRec(StrTC(<<"0", ":", "0", "0">>), "a") >>,
    << TextRec(NumTC(1), "it\\'s"), TextRec(NumTC(2), "b") >> }
Responses ==
  { [call |-> "set_timecodes", timecodes |-> l, text |-> Null] :
      l \in ResponseLists }
  \cup { [call |-> "none", timecodes |-> <<>>, text |-> Some("summary")],
         [call |-> "none", timecodes |-> <<>>, text |-> Null],
         [call |-> "other_function", timecodes |-> <<>>, text |-> Null] }

\* the clock behind Date.now() advances by a millisecond
Tick ==
  /\ now < MaxClock
  /\ now' = now + 1
  /\ UNCHANGED <<isLoading, activeMode, selectedMode, latestRequestRef,
                 requests>>
  /\ UNCHANGED <<utilVars, idxVars, mediaVars, annVars, jumpVars,
                 playerVars, elVars>>

\* the sidebar is rendered (App.tsx 239) and lets the user start mode:
\* the Generate button is disabled while isLoading (part of App.tsx
\* 417-426, 457-462), the Enter key of the prompt textarea is not
SidebarAllows(mode) ==
  /\ ~IsNull(vidUrl)
  /\ ~isLoadingVideo
  /\ IF isLoading THEN mode = "Custom" ELSE TRUE

\* the buttons of the sidebar that call setSelectedMode (App.tsx 428-432,
\* 440-453): with the prompt textarea shown (Custom) only Back, which
\* selects the first mode; otherwise the mode list, whose Table button is
\* disabled for audio
setSelectedMode(mode) ==
  /\ ~IsNull(vidUrl)
  /\ ~isLoadingVideo
  /\ IF selectedMode = "Custom"
     THEN mode = FirstMode
     ELSE ~(mediaType = Some("audio") /\ mode = "Table")
  /\ selectedMode' = mode
  /\ UNCHANGED <<isLoading, activeMode, latestRequestRef, now, requests>>
  /\ UNCHANGED <<utilVars, idxVars, mediaVars, annVars, jumpVars,
                 playerVars, elVars>>

\* onModeSelect 93
StoreRequestId(requestId) == latestRequestRef' = requestId

\* mutant: without a file handle the call still takes a request identifier
onModeSelectNoFileStoresId(mode) ==
  /\ SidebarAllows(mode)
  /\ mode = selectedMode
  /\ IF IsNull(file)
     THEN /\ apiError' = Some(UploadFirstMessage)
          /\ StoreRequestId(now)
          /\ UNCHANGED <<timecodeList, textResponse>>
          /\ UNCHANGED <<isLoading, activeMode, selectedMode, now, requests>>
     ELSE /\ Len(requests) < MaxRequests
          /\ StoreRequestId(now)
          /\ activeMode' = Some(mode)
          /\ isLoading' = TRUE
          /\ timecodeList' = Null
          /\ textResponse' = Null
          /\ apiError' = Null
          /\ requests' = Append(requests,
                                [id |-> now, file |-> Val(file),
                                 url |-> Val(vidUrl), i |-> 0,
                                 calls |-> 1, cancelled |-> FALSE,
                                 pc |-> "gen"])
          /\ UNCHANGED <<now, selectedMode>>
  /\ UNCHANGED <<utilVars, idxVars, mediaVars, jumpVars, playerVars, elVars>>

\* onModeSelect 86-127, up to the first await generateContent
onModeSelect(mode) ==
  /\ SidebarAllows(mode)
  /\ mode = selectedMode
  /\ IF IsNull(file)
     THEN /\ apiError' = Some(UploadFirstMessage)
          /\ UNCHANGED <<timecodeList, textResponse>>
          /\ UNCHANGED reqVars
     ELSE /\ Len(requests) < MaxRequests
          /\ StoreRequestId(now)
          /\ activeMode' = Some(mode)
          /\ isLoading' = TRUE
          /\ timecodeList' = Null
          /\ textResponse' = Null
          /\ apiError' = Null
          /\ requests' = Append(requests,
                                [id |-> now, file |-> Val(file),
                                 url |-> Val(vidUrl), i |-> 0,
                                 calls |-> 1, cancelled |-> FALSE,
                                 pc |-> "gen"])
          /\ UNCHANGED <<now, selectedMode>>
  /\ UNCHANGED <<utilVars, idxVars, mediaVars, jumpVars, playerVars, elVars>>

\* onModeSelect 143-158 and the finally block 164-169, run by request r
\* with response resp
ApplyResponse(r, resp) ==
  IF latestRequestRef # r.id
  THEN UNCHANGED <<timecodeList, textResponse, apiError, isLoading>>
  ELSE /\ isLoading' = FALSE
       /\ IF resp.call # "none"
          THEN /\ timecodeList' =
                    IF resp.call = "set_timecodes"
                    THEN Some(setTimecodes(resp.timecodes))
                    ELSE timecodeList
               /\ UNCHANGED <<textResponse, apiError>>
          ELSE IF ~IsNull(resp.text)
          THEN /\ textResponse' = resp.text
               /\ UNCHANGED <<timecodeList, apiError>>
          ELSE /\ apiError' = Some(NoValidResponseMessage)
               /\ UNCHANGED <<timecodeList, textResponse>>

\* mutant: an empty response is retried once more than maxRetries allows
GenResolvedExtraRetry(k, resp) ==
  /\ k \in 1..Len(requests)
  /\ requests[k].pc = "gen"
  /\ IF resp.call # "none" \/ ~IsNull(resp.text)
     THEN /\ ApplyResponse(requests[k], resp)
          /\ requests' = [requests EXCEPT ![k].pc = "done"]
     ELSE IF requests[k].i < maxRetries
     THEN /\ requests' = [requests EXCEPT ![k].pc = "backoff"]
          /\ UNCHANGED <<timecodeList, textResponse, apiError, isLoading>>
     ELSE /\ ApplyResponse(requests[k], resp)
          /\ requests' = [requests EXCEPT ![k].pc = "done",
                                          ![k].i = maxRetries]
  /\ UNCHANGED <<activeMode, selectedMode, latestRequestRef, now>>
  /\ UNCHANGED <<utilVars, idxVars, mediaVars, jumpVars, playerVars,
                 elVars>>

\* generateContent resolves for the k-th request (127-141): a response with
\* a function call or text ends the loop, an empty one waits for the
\* backoff timer unless it was the last attempt
GenResolved(k, resp) ==
  /\ k \in 1..Len(requests)
  /\ requests[k].pc = "gen"
  /\ IF resp.call # "none" \/ ~IsNull(resp.text)
     THEN /\ ApplyResponse(requests[k], resp)
          /\ requests' = [requests EXCEPT ![k].pc = "done"]
     ELSE IF requests[k].i < maxRetries - 1
     THEN /\ requests' = [requests EXCEPT ![k].pc = "backoff"]
          /\ UNCHANGED <<timecodeList, textResponse, apiError, isLoading>>
     ELSE /\ ApplyResponse(requests[k], resp)
          /\ requests' = [requests EXCEPT ![k].pc = "done",
                                          ![k].i = maxRetries]
  /\ UNCHANGED <<activeMode, selectedMode, latestRequestRef, now>>
  /\ UNCHANGED <<utilVars, idxVars, mediaVars, jumpVars, playerVars, elVars>>

\* mutant: the next iteration calls generateContent without looking at
\* latestRequestRef
BackoffElapsedUnchecked(k) ==
  /\ k \in 1..Len(requests)
  /\ requests[k].pc = "backoff"
  /\ requests' = [requests EXCEPT ![k].i = @ + 1, ![k].calls = @ + 1,
                                  ![k].pc = "gen"]
  /\ UNCHANGED <<isLoading, activeMode, selectedMode, latestRequestRef,
                 now>>
  /\ UNCHANGED <<utilVars, idxVars, mediaVars, annVars, jumpVars,
                 playerVars, elVars>>

\* the backoff timer fires (139, then 123-127): next iteration, which
\* returns when a newer request has started and calls generateContent
\* again otherwise
BackoffElapsed(k) ==
  /\ k \in 1..Len(requests)
  /\ requests[k].pc = "backoff"
  /\ requests' =
       IF latestRequestRef # requests[k].id
       THEN [requests EXCEPT ![k].i = @ + 1, ![k].pc = "done"]
       ELSE [requests EXCEPT ![k].i = @ + 1, ![k].calls = @ + 1,
                             ![k].pc = "gen"]
  /\ UNCHANGED <<isLoading, activeMode, selectedMode, latestRequestRef,
                 now>>
  /\ UNCHANGED <<utilVars, idxVars, mediaVars, annVars, jumpVars,
                 playerVars, elVars>>

\* generateContent throws for the k-th request (159-169)
GenRejected(k) ==
  /\ k \in 1..Len(requests)
  /\ requests[k].pc = "gen"
  /\ requests' = [requests EXCEPT ![k].pc = "done"]
  /\ IF latestRequestRef = requests[k].id
     THEN /\ apiError' = Some(UpstreamErrorMessage)
          /\ isLoading' = FALSE
     ELSE UNCHANGED <<apiError, isLoading>>
  /\ UNCHANGED <<timecodeList, textResponse>>
  /\ UNCHANGED <<activeMode, selectedMode, latestRequestRef, now>>
  /\ UNCHANGED <<utilVars, idxVars, mediaVars, jumpVars, playerVars, elVars>>

\* handleCancel 172-176 (the Cancel button of the loading view)
handleCancel ==
  /\ isLoading
  /\ latestRequestRef' = now
  /\ isLoading' = FALSE
  /\ apiError' = Null
  /\ UNCHANGED <<timecodeList, textResponse>>
  /\ requests' =
       [k \in 1..Len(requests) |->
          IF requests[k].pc # "done"
          THEN [requests[k] EXCEPT !.cancelled = TRUE]
          ELSE requests[k]]
  /\ UNCHANGED <<activeMode, selectedMode, now>>
  /\ UNCHANGED <<utilVars, idxVars, mediaVars, jumpVars, playerVars, elVars>>

(***************************************************************************)
(* Spec: the App component.  The upload service answers the first poll     *)
(* with ACTIVE or FAILED; the user offers video files and files of an      *)
(* invalid type and chooses between the first mode and Custom.             *)
(***************************************************************************)
Init ==
  /\ InitApp
  /\ InitPlayer
  /\ IdleIndex
  /\ IdleUtils
  /\ now = 1

Next ==
  \/ Tick
  \/ \E type \in {"video", "other"} : handleFileUpload(type)
  \/ \E u \in uploads : UploadResolved(u)
  \/ \E u \in uploads : \E st \in {"ACTIVE", "FAILED"} : GetResolved(u, st)
  \/ \E u \in uploads : UploadRejected(u)
  \/ \E mode \in {FirstMode, "Custom"} : setSelectedMode(mode)
  \/ \E mode \in Modes : onModeSelect(mode)
  \/ \E k \in 1..MaxRequests : \E resp \in Responses : GenResolved(k, resp)
  \/ \E k \in 1..MaxRequests : BackoffElapsed(k)
  \/ \E k \in 1..MaxRequests : GenRejected(k)
  \/ handleCancel

Spec == Init /\ [][Next]_vars

(***************************************************************************)
(* Claims about annotation requests, checked under Spec.                   *)
(***************************************************************************)
\* the k-th request receives the result (response or error) of a pending
\* generateContent call in this step
ResultArrives(k) ==
  /\ k \in 1..Len(requests)
  /\ requests[k].pc = "gen"
  /\ requests'[k].pc # "gen"

\* C1: when request A was followed by a request B before A's
\* generateContent resolved, A's response or error changes none of
\* timecodeList, textResponse, apiError, isLoading; the response of the
\* latest request B, arriving with no cancel in between, is applied.
C1_StaleResponseDiscarded ==
  [][/\ \A k \in 1..MaxRequests :
          (ResultArrives(k) /\ k < Len(requests)) =>
            UNCHANGED <<timecodeList, textResponse, apiError, isLoading>>
     /\ \A resp \in Responses :
          (/\ Len(requests) >= 2
           /\ GenResolved(Len(requests), resp)
           /\ latestRequestRef = requests[Len(requests)].id
           /\ resp.call = "set_timecodes")
          => /\ timecodeList' = Some(setTimecodes(resp.timecodes))
             /\ isLoading' = FALSE]_vars

\* C2: once handleFileUpload has accepted a new media file, the result of a
\* request that was started before it (for the media shown until then) sets
\* none of timecodeList, textResponse, apiError.
C2_UploadSupersedesRequest ==
  [][\A k \in 1..MaxRequests :
       (ResultArrives(k) /\ Some(requests[k].url) # vidUrl) =>
         UNCHANGED <<timecodeList, textResponse, apiError>>]_vars

(***************************************************************************)
(* Claims about the player, checked under SpecPlayer.                      *)
(***************************************************************************)
\* a step of the scrubber's onChange handler
ScrubberSeekStep == \E x \in ScrubberValues : ScrubberChange(x)

\* a step in which the effect on [requestedTimecode] writes the position
TimecodeSeekStep ==
  /\ \E i \in 1..MaxLen : jumpToTimecode(i)
  /\ Mounted
  /\ requestedTimecode' # requestedTimecode

\* a step of handleFileUpload that accepts a file
SourceChangeStep == handleFileUpload("video") \/ handleFileUpload("audio")

\* C4: while isScrubbing is set, a native tick (updateTime) leaves the
\* displayed caption unchanged.
C4_TickKeepsCaptionWhileScrubbing ==
  [][(isScrubbing /\ updateTime) => currentCaption' = currentCaption]_vars

\* C5 as stated: while isScrubbing is set, a tick never changes
\* scrubberTime, and scrubberTime changes only through the seek control.
C5_ScrubPositionOnlyFromSeekControl ==
  [][isScrubbing =>
       /\ (updateTime => scrubberTime' = scrubberTime)
       /\ (scrubberTime' # scrubberTime => ScrubberSeekStep)]_vars

\* C5 amended: while isScrubbing is set, a tick never changes scrubberTime,
\* and scrubberTime changes only through the seek control or by the reset to
\* 0 that a change of the media source performs.
C5_ScrubPositionFromSeekControlOrReset ==
  [][isScrubbing =>
       /\ (updateTime => scrubberTime' = scrubberTime)
       /\ (scrubberTime' # scrubberTime =>
             \/ ScrubberSeekStep
             \/ SourceChangeStep /\ scrubberTime' = Fin(0))]_vars

\* C5 witness: scrubbing, the element playing at a position that is not the
\* displayed one
C5_Witness ==
  /\ Mounted
  /\ isScrubbing
  /\ ~elPaused
  /\ elDuration = Fin(MediaDuration)
  /\ elCurrentTime = Fin(1)
  /\ scrubberTime = Fin(0)
  /\ currentCaption = Some("b")

\* C6: right after a seek (scrubber onChange or requested timecode), with
\* the caption up to date before it, the displayed caption is the text of
\* the active record at the new position.
C6_SeekRederivesCaption ==
  [][(/\ ScrubberSeekStep \/ TimecodeSeekStep
      /\ currentCaption = CaptionAt(timecodeList, elCurrentTime))
     => currentCaption' = CaptionAt(timecodeList', elCurrentTime')]_vars

\* C7: the position written to the element for a requested timecode t is
\* min(max(t, 0), duration).
C7_SeekClampsTarget ==
  [][TimecodeSeekStep =>
       seekTarget' =
         Some(Clamp(Val(requestedTimecode'), Fin(0), duration))]_vars

\* C8: every click on a record whose time lies within the media sets the
\* element's position to the parsed time of that record.
C8_EveryClickSeeks ==
  [][\A i \in 1..MaxLen :
       (/\ jumpToTimecode(i)
        /\ clicks' # clicks
        /\ Mounted
        /\ IsFin(elDuration)
        /\ NumLeq(Fin(0), timeToSecs(Val(timecodeList)[i].time))
        /\ NumLeq(timeToSecs(Val(timecodeList)[i].time), elDuration))
       => elCurrentTime' = timeToSecs(Val(timecodeList)[i].time)]_vars

\* C9: whenever the media source URL changes, the displayed position is 0,
\* the caption is none and the playing flag is false.
C9_SourceChangeResets ==
  [][vidUrl' # vidUrl =>
       /\ scrubberTime' = Fin(0)
       /\ IsNull(currentCaption')
       /\ isPlaying' = FALSE]_vars

\* C9 witness: the second media has just been accepted after the first one
\* was loaded, and the controller is reset
C9_Witness ==
  /\ vidUrl = Some(2)
  /\ isLoadingVideo
  /\ duration = Fin(MediaDuration)
  /\ scrubberTime = Fin(0)
  /\ IsNull(currentCaption)
  /\ ~isPlaying

\* C10: whenever the media source URL changes, isScrubbing is false
\* afterwards.
C10_SourceChangeClearsScrubbing ==
  [][vidUrl' # vidUrl => isScrubbing' = FALSE]_vars

(***************************************************************************)
(* SpecUtils: the utilities of utils.ts applied to every list of at most   *)
(* MaxRecords text records over UtilTimecodes and every UtilDurations.     *)
(***************************************************************************)
UtilTimecodes ==
  { StrTC(<<"4", "5">>), StrTC(<<"0", "2", ":", "0", "3">>),
    StrTC(<<"0", "1", ":", "0", "2", ":", "0", "3">>),
    StrTC(<<"0", ":", "0", "0">>), StrTC(<<"0", ":", "0", "5">>),
    StrTC(<<"b", "a", "d">>), StrTC(<<>>),
    StrTC(<<"1", ":", "x", "x">>), StrTC(<<"1", ":", "2", "x">>),
    StrTC(<<"1", ":">>), StrTC(<<"-", "1">>),
    StrTC(<<"1", ":", "2", ":", "3", ":", "4">>),
    NumTC(90), NumTC(0), [NumTC(0) EXCEPT !.num = Rat(3, 2)] }

UtilDurations == { Fin(0), Fin(10), Rat(7, 2) }

\* the record at (1-based) place i carries UtilTexts[i]
UtilTexts ==
  << <<"H", "i">>, <<"B", "y", "e">>, <<"o", "k">>, <<"e", "n", "d">> >>
UtilLists ==
  UNION { { [i \in 1..n |-> TextRec(f[i], UtilTexts[i])] :
              f \in [1..n -> UtilTimecodes] } : n \in 0..MaxRecords }

InitUtils ==
  /\ utilTimecodes \in UtilLists
  /\ utilDuration \in UtilDurations
  /\ utilOp = [op |-> "none", arg |-> 0]
  /\ utilSecs = Fin(0)
  /\ utilText = <<>>
  /\ IdleIndex
  /\ InitApp
  /\ InitPlayer
  /\ now = 1

UtilIdle ==
  UNCHANGED <<utilTimecodes, utilDuration, idxVars, mediaVars, annVars,
              reqVars, jumpVars, playerVars, elVars>>

\* timeToSecs(time) on the i-th record, as the list items and markers call it
ParseTimecode(i) ==
  /\ i \in 1..Len(utilTimecodes)
  /\ utilOp' = [op |-> "timeToSecs", arg |-> i]
  /\ utilSecs' = timeToSecs(utilTimecodes[i].time)
  /\ UNCHANGED utilText
  /\ UtilIdle

\* ActionToolbar handleDownloadSrt (part_001 242-263)
handleDownloadSrt ==
  /\ utilOp' = [op |-> "generateSrt", arg |-> 0]
  /\ utilText' = generateSrt(utilTimecodes, utilDuration)
  /\ UNCHANGED utilSecs
  /\ UtilIdle

\* ActionToolbar handleCopy (part_001 265-271)
handleCopy(type) ==
  /\ utilOp' = [op |-> "formatCopyToClipboard", arg |-> type]
  /\ utilText' = formatCopyToClipboard(utilTimecodes, type)
  /\ UNCHANGED utilSecs
  /\ UtilIdle

NextUtils ==
  \/ \E i \in 1..MaxRecords : ParseTimecode(i)
  \/ handleDownloadSrt
  \/ \E type \in {"timestamps", "textOnly"} : handleCopy(type)

SpecUtils == InitUtils /\ [][NextUtils]_vars

(***************************************************************************)
(* Claims about the utilities, checked under SpecUtils.                    *)
(***************************************************************************)
\* a decimal numeral: an optional minus sign and one or more digits
IsNumeral(s) ==
  LET body == IF s # <<>> /\ Head(s) = "-" THEN Tail(s) ELSE s
  IN body # <<>> /\ \A i \in 1..Len(body) : IsDigit(body[i])

\* value of a numeral, digit by digit with its power of ten
RECURSIVE Pow10(_)
Pow10(e) == IF e = 0 THEN 1 ELSE 10 * Pow10(e - 1)
RECURSIVE DigitSum(_, _)
DigitSum(body, i) ==
  IF i > Len(body) THEN 0
  ELSE DigitVal(body[i]) * Pow10(Len(body) - i) + DigitSum(body, i + 1)
NumeralValue(s) ==
  IF s # <<>> /\ Head(s) = "-" THEN -DigitSum(Tail(s), 1)
  ELSE DigitSum(s, 1)

\* the timecode handed to the last timeToSecs call
ParsedInput == utilTimecodes[utilOp.arg].time

\* C11: for every string timecode with a component that is not a numeral,
\* with or without a colon, timeToSecs returns exactly 0.
C11_MalformedYieldsZero ==
  (/\ utilOp.op = "timeToSecs"
   /\ ParsedInput.type = "string"
   /\ \E c \in 1..Len(Split(ParsedInput.str)) :
        ~IsNumeral(Split(ParsedInput.str)[c]))
  => utilSecs = Fin(0)

\* C12: timeToSecs returns the number itself for a numeric input, s for a
\* colon-free numeral "s", m*60+s for "m:s" and h*3600+m*60+s for "h:m:s".
C12_WellFormedValue ==
  utilOp.op = "timeToSecs" =>
    IF ParsedInput.type = "number" THEN utilSecs = ParsedInput.num
    ELSE LET c == Split(ParsedInput.str)
             v(j) == NumeralValue(c[j])
         IN (\A j \in 1..Len(c) : IsNumeral(c[j])) =>
              /\ Len(c) = 1 => utilSecs = Fin(v(1))
              /\ Len(c) = 2 => utilSecs = Fin(v(1) * 60 + v(2))
              /\ Len(c) = 3 =>
                   utilSecs = Fin(v(1) * 3600 + v(2) * 60 + v(3))

\* a three-component timecode with a non-zero hour has been parsed, after
\* a numeric one in the same list
C12_Witness ==
  /\ utilOp.op = "timeToSecs"
  /\ ParsedInput = StrTC(<<"0", "1", ":", "0", "2", ":", "0", "3">>)
  /\ utilSecs = Fin(3723)
  /\ Len(utilTimecodes) = 2
  /\ utilTimecodes[1].time = NumTC(90)

\* the lines of a string: String.prototype.split('\n')
RECURSIVE Lines(_)
Lines(s) ==
  IF ~Includes(s, "\n") THEN <<s>>
  ELSE LET i == CHOOSE j \in 1..Len(s) :
                  s[j] = "\n" /\ \A m \in 1..(j - 1) : s[m] # "\n"
       IN <<SubSeq(s, 1, i - 1)>> \o Lines(SubSeq(s, i + 1, Len(s)))

\* start and end of the i-th block (1-based) of the subtitle document
SrtStart(i) == timeToSecs(utilTimecodes[i].time)
SrtEnd(i) ==
  IF i < Len(utilTimecodes) THEN timeToSecs(utilTimecodes[i + 1].time)
  ELSE utilDuration

\* C13: for n >= 1 records generateSrt emits exactly n blocks in input
\* order, each a number line, a time line, a text line and a blank line;
\* the i-th block (1-based) is numbered i, starts at the parsed time of
\* record i and ends at the parsed time of record i+1, the last one at
\* totalDuration, also when that is earlier than its start.
C13_SrtBlocks ==
  (utilOp.op = "generateSrt" /\ utilTimecodes # <<>>) =>
    LET n == Len(utilTimecodes)
        lines == Lines(utilText)
    IN /\ Len(lines) = 4 * n
       /\ \A i \in 1..n :
            /\ lines[4 * i - 3] = NatToString(i)
            /\ lines[4 * i - 2] =
                 formatSrtTime(SrtStart(i)) \o <<" ", "-", "-", ">", " ">>
                   \o formatSrtTime(SrtEnd(i))
            /\ lines[4 * i - 1] = utilTimecodes[i].text
            /\ lines[4 * i] = <<>>
       /\ \A i \in 1..(n - 1) : SrtEnd(i) = SrtStart(i + 1)
       /\ SrtEnd(n) = utilDuration

\* a two-block document whose last record (3723 s) lies beyond the total
\* duration (10 s): the last block ends before it starts
C13_Witness ==
  /\ utilOp.op = "generateSrt"
  /\ Len(utilTimecodes) = 2
  /\ utilDuration = Fin(10)
  /\ utilTimecodes[1].time = StrTC(<<"0", ":", "0", "5">>)
  /\ utilTimecodes[2].time =
       StrTC(<<"0", "1", ":", "0", "2", ":", "0", "3">>)
  /\ Lines(utilText)[6] =
       <<"0", "1", ":", "0", "2", ":", "0", "3", ",", "0", "0", "0",
         " ", "-", "-", ">", " ",
         "0", "0", ":", "0", "0", ":", "1", "0", ",", "0", "0", "0">>

\* C14: on an empty record sequence generateSrt returns the empty string,
\* whatever totalDuration is.
C14_SrtOfNothingIsEmpty ==
  (utilOp.op = "generateSrt" /\ utilTimecodes = <<>>) => utilText = <<>>

\* the subtitle document of no records has been generated with a non-zero
\* total duration
C14_Witness ==
  /\ utilOp.op = "generateSrt"
  /\ utilTimecodes = <<>>
  /\ utilDuration = Rat(7, 2)
  /\ utilText = <<>>

\* C15: formatCopyToClipboard yields one line per record in input order:
\* the text of the record in 'textOnly' mode, "<time> - <text>" in
\* 'timestamps' mode, where <time> is the time as received (a string
\* unchanged, a number as its numeral), not the parsed seconds.
C15_ClipboardLines ==
  utilOp.op = "formatCopyToClipboard" =>
    LET n == Len(utilTimecodes)
        lines == Lines(utilText)
        received(tc) ==
          IF tc.type = "string" THEN tc.str ELSE NumToString(tc.num)
    IN IF n = 0 THEN utilText = <<>>
       ELSE /\ Len(lines) = n
            /\ \A i \in 1..n :
                 lines[i] =
                   IF utilOp.arg = "textOnly" THEN utilTimecodes[i].text
                   ELSE received(utilTimecodes[i].time)
                          \o <<" ", "-", " ">> \o utilTimecodes[i].text

\* "0:05 - Hi" has been produced from the record ("0:05", "Hi")
C15_Witness ==
  /\ utilOp = [op |-> "formatCopyToClipboard", arg |-> "timestamps"]
  /\ utilTimecodes = << TextRec(StrTC(<<"0", ":", "0", "5">>), <<"H", "i">>) >>
  /\ utilText = <<"0", ":", "0", "5", " ", "-", " ", "H", "i">>

(***************************************************************************)
(* Claims about the rendered percentages, checked under SpecPlayer.        *)
(***************************************************************************)
\* C16: while the player is shown and its duration is 0, the scrubber
\* fraction a tick computes and the left offset of every timecode marker
\* are 0 (not NaN, not infinite).
C16_PercentagesZeroAtZeroDuration ==
  (Mounted /\ duration = Fin(0)) =>
    /\ TickFraction = Fin(0)
    /\ ~IsNull(timecodeList) =>
         \A i \in 1..Len(Val(timecodeList)) :
           MarkerPct(Val(timecodeList)[i]) = Fin(0)

(***************************************************************************)
(* Claims about retries, errors and request identifiers, checked under     *)
(* Spec.                                                                   *)
(***************************************************************************)
\* a response with neither a function call nor text
IsEmptyResponse(resp) == resp.call = "none" /\ IsNull(resp.text)

\* C17: a request calls generateContent at most maxRetries = 3 times; it
\* calls again only after an empty response (through the backoff wait), a
\* response with a function call or text ends it; and when the third
\* response of the current request is empty too, the request ends with
\* apiError set to the failure message and isLoading false.
C17_BoundedRetry ==
  [][\A k \in 1..MaxRequests :
       /\ k \in 1..Len(requests') => requests'[k].calls <= maxRetries
       /\ (k \in 1..Len(requests) /\ requests'[k].calls # requests[k].calls)
            => requests[k].pc = "backoff"
       /\ (k \in 1..Len(requests) /\ requests[k].pc # "backoff"
           /\ requests'[k].pc = "backoff")
            => \E resp \in Responses :
                 IsEmptyResponse(resp) /\ GenResolved(k, resp)
       /\ \A resp \in Responses :
            GenResolved(k, resp) =>
              /\ ~IsEmptyResponse(resp) => requests'[k].pc = "done"
              /\ (/\ IsEmptyResponse(resp)
                  /\ requests[k].calls = maxRetries
                  /\ latestRequestRef = requests[k].id)
                 => /\ requests'[k].pc = "done"
                    /\ apiError' = Some(NoValidResponseMessage)
                    /\ isLoading' = FALSE]_vars

\* a request has ended after three empty responses
C17_Witness ==
  \E k \in 1..Len(requests) :
    /\ requests[k].calls = maxRetries
    /\ requests[k].i = maxRetries
    /\ requests[k].pc = "done"
    /\ latestRequestRef = requests[k].id
    /\ apiError = Some(NoValidResponseMessage)
    /\ ~isLoading

\* C18: when generateContent throws during the latest request (not
\* cancelled), the request ends without another call, apiError is the error
\* message, isLoading is false, timecodeList and textResponse are null, and
\* with the media still loaded the sidebar lets every mode start a request.
C18_UpstreamErrorSurfaced ==
  [][\A k \in 1..MaxRequests :
       (/\ GenRejected(k)
        /\ k = Len(requests)
        /\ latestRequestRef = requests[k].id)
       => /\ requests'[k].pc = "done"
          /\ requests'[k].calls = requests[k].calls
          /\ apiError' = Some(UpstreamErrorMessage)
          /\ isLoading' = FALSE
          /\ timecodeList' = Null
          /\ textResponse' = Null
          /\ Mounted' => \A mode \in Modes : SidebarAllows(mode)']_vars

\* C19: every onModeSelect that starts a request and every handleCancel
\* stores in latestRequestRef a value strictly greater than the one stored
\* before (the stored values never decrease, so than every earlier one).
C19_RequestIdsStrictlyIncrease ==
  [][(Len(requests') > Len(requests) \/ handleCancel)
       => latestRequestRef' > latestRequestRef]_vars

(***************************************************************************)
(* SpecUpload: handleFileUpload and uploadFile alone, with every state the *)
(* upload service can report on a poll.                                    *)
(***************************************************************************)
NextUpload ==
  \/ \E type \in FileTypes : handleFileUpload(type)
  \/ \E u \in uploads : UploadResolved(u)
  \/ \E u \in uploads : \E st \in FileStates : GetResolved(u, st)
  \/ \E u \in uploads : UploadRejected(u)

SpecUpload == Init /\ [][NextUpload]_vars

\* the uploadFile invocation for object URL url has not settled
InFlight(set, url) == \E v \in set : v.url = url

\* C20: uploadFile keeps polling while the state is PROCESSING and gives no
\* handle; on FAILED it rejects, and App then has file null and videoError
\* set; file receives a handle only from a poll whose state is neither
\* PROCESSING nor FAILED.
C20_UploadFollowsProcessingState ==
  [][/\ \A u \in uploads :
          /\ GetResolved(u, "PROCESSING") =>
               /\ InFlight(uploads', u.url)
               /\ file' = file
          /\ GetResolved(u, "FAILED") =>
               /\ ~InFlight(uploads', u.url)
               /\ file' = Null
               /\ videoError' = Some(ProcessingFailedMessage)
     /\ (file' # file /\ file' # Null) =>
          \E u \in uploads : \E st \in FileStates \ {"PROCESSING", "FAILED"} :
            GetResolved(u, st) /\ file' = Some(u.url)]_vars

(***************************************************************************)
(* Claims about uploads, checked under SpecUpload (C22 under Spec).        *)
(***************************************************************************)
\* uploadFile rejects in this step: the service reports FAILED, or the
\* upload or a poll throws
UploadFails(u) == GetResolved(u, "FAILED") \/ UploadRejected(u)

\* C21: in the state reached when uploadFile rejects (isLoadingVideo false,
\* videoError set) the rendered view shows the videoError message.
C21_UploadFailureVisible ==
  [][\A u \in uploads :
       UploadFails(u) =>
         /\ ~isLoadingVideo'
         /\ ~IsNull(videoError')
         /\ VideoErrorShown']_vars

\* C22: handleFileUpload with a file that is neither video nor audio sets
\* videoError and leaves vidUrl, file, mediaType, timecodeList,
\* textResponse, apiError and isLoadingVideo as they are; no upload starts.
C22_InvalidTypeOnlySetsError ==
  [][handleFileUpload("other") =>
       /\ videoError' = Some(InvalidFileMessage)
       /\ UNCHANGED <<vidUrl, file, mediaType, timecodeList, textResponse,
                      apiError, isLoadingVideo>>
       /\ uploads' = uploads]_vars

\* an invalid file has been rejected while a processed media and its
\* annotations were shown
C22_Witness ==
  /\ videoError = Some(InvalidFileMessage)
  /\ ~IsNull(vidUrl)
  /\ ~IsNull(file)
  /\ ~IsNull(timecodeList)
  /\ ~isLoadingVideo
  /\ uploads = {}

(***************************************************************************)
(* Claims about play and pause, checked under SpecPlayer.                  *)
(***************************************************************************)
\* a step of the scrubber: pointer down, a change of its value, pointer up
ScrubStep == onPointerDown \/ ScrubberSeekStep \/ onPointerUp

\* the flag changes only on the element's play and pause events and on a
\* source change; togglePlay pauses the element when the flag is set and
\* plays it otherwise; no scrubber step changes the flag
PlayPauseRules ==
  /\ isPlaying' # isPlaying => (onPlay \/ onPause \/ SourceChangeStep)
  /\ togglePlay =>
       /\ isPlaying' = isPlaying
       /\ elPaused' = isPlaying
  /\ ScrubStep => isPlaying' = isPlaying

\* C23 as stated: the rules above, and when the scrubber is released the
\* playing flag is the one the controller had when the scrub began.
C23_PlayPauseMachine ==
  [][/\ PlayPauseRules
     /\ (onPointerUp /\ isScrubbing) =>
          isPlaying' = playingBeforeScrub]_vars

\* C23 amended: the rules alone; the flag on release differs from the one
\* before the scrub only through a play or pause event of the element or a
\* source change that arrived meanwhile.
C23_PlayPauseRulesOnly == [][PlayPauseRules]_vars

\* a scrub that began while playing has been released, with the position
\* moved, and the controller is still playing
C23_Witness ==
  /\ Mounted
  /\ ~isScrubbing
  /\ playingBeforeScrub
  /\ isPlaying
  /\ scrubberTime = Fin(1)
  /\ seekTarget = Some(Fin(MediaDuration))

(***************************************************************************)
(* Claims about the annotation state, checked under Spec.                  *)
(***************************************************************************)
\* a request is started in this step
RequestStarts == Len(requests') > Len(requests)

\* the latest request, not cancelled, receives the set_timecodes response
\* resp in this step
LatestReceives(resp) ==
  /\ requests # <<>>
  /\ GenResolved(Len(requests), resp)
  /\ latestRequestRef = requests[Len(requests)].id
  /\ resp.call = "set_timecodes"

\* C24 as stated: starting a request sets timecodeList to null, and a
\* set_timecodes response applied by the latest request leaves in
\* timecodeList exactly the records of the response.
C24_WholesaleReplacement ==
  [][/\ RequestStarts => timecodeList' = Null
     /\ \A resp \in Responses :
          LatestReceives(resp) => timecodeList' = Some(resp.timecodes)]_vars

\* C24 amended: ... leaves in timecodeList one record per record of the
\* response, in the same order, with the same time and with the text of the
\* response in which every \' has become ' ; nothing else is in the list.
C24_ReplacementUnescaped ==
  [][/\ RequestStarts => timecodeList' = Null
     /\ \A resp \in Responses :
          LatestReceives(resp) =>
            /\ ~IsNull(timecodeList')
            /\ Len(Val(timecodeList')) = Len(resp.timecodes)
            /\ \A j \in 1..Len(resp.timecodes) :
                 /\ Val(timecodeList')[j].time = resp.timecodes[j].time
                 /\ Val(timecodeList')[j].text =
                      IF resp.timecodes[j].text = "it\\'s" THEN "it's"
                      ELSE resp.timecodes[j].text]_vars

\* the second of two requests with different identifiers has shown its
\* two-record response, the escaped apostrophe unescaped
C24_Witness ==
  /\ Len(requests) = 2
  /\ requests[1].id # requests[2].id
  /\ requests[2].pc = "done"
  /\ latestRequestRef = requests[2].id
  /\ ~isLoading
  /\ timecodeList =
       Some(<< TextRec(NumTC(1), "it's"), TextRec(NumTC(2), "b") >>)

\* C25: handleCancel leaves isLoading false and apiError null, and the
\* result (response or error) of a request that was in flight when
\* handleCancel ran changes none of timecodeList, textResponse, apiError,
\* isLoading.
C25_CancelInvalidatesRequest ==
  [][/\ handleCancel => (isLoading' = FALSE /\ apiError' = Null)
     /\ \A k \in 1..MaxRequests :
          (ResultArrives(k) /\ requests[k].cancelled) =>
            UNCHANGED <<timecodeList, textResponse, apiError,
                        isLoading>>]_vars

\* C26: a request whose identifier latestRequestRef no longer holds makes
\* no further generateContent call, whatever arrives for it, and
\* latestRequestRef never returns to its identifier.
C26_SupersededStopsCalling ==
  [][\A k \in 1..Len(requests) :
       latestRequestRef # requests[k].id =>
         /\ requests'[k].calls = requests[k].calls
         /\ latestRequestRef' # requests[k].id]_vars

\* a superseded request got an empty response, waited for the backoff and
\* returned at the head of the loop without a second call
C26_Witness ==
  \E k \in 1..Len(requests) :
    /\ latestRequestRef # requests[k].id
    /\ requests[k].pc = "done"
    /\ requests[k].i = 1
    /\ requests[k].calls = 1

(***************************************************************************)
(* Claims about overlapping uploads (SpecUpload) and request outcomes      *)
(* (Spec).                                                                 *)
(***************************************************************************)
\* C27: whenever file is non-null it is the handle returned by the upload
\* of the media shown at vidUrl (handles and object URLs are numbered
\* alike: the upload of object URL n returns handle n).
C27_HandleMatchesShownMedia ==
  ~IsNull(file) => file = vidUrl

\* C28: whenever isLoading goes from true to false without a cancel, at
\* least one of timecodeList, textResponse, apiError is non-null afterwards.
C28_CompletedRequestHasOutcome ==
  [][(isLoading /\ ~isLoading' /\ ~handleCancel) =>
       (~IsNull(timecodeList') \/ ~IsNull(textResponse')
          \/ ~IsNull(apiError'))]_vars

(***************************************************************************)
(* FairSpec: Spec in which every generateContent call is answered and      *)
(* every backoff timer fires.                                              *)
(***************************************************************************)
\* the pending generateContent call of the k-th request resolves or throws
SettleStep(k) ==
  (\E resp \in Responses : GenResolved(k, resp)) \/ GenRejected(k)

FairSpec ==
  /\ Spec
  /\ \A k \in 1..MaxRequests :
       WF_vars(SettleStep(k)) /\ WF_vars(BackoffElapsed(k))

\* C29: whenever isLoading is true it eventually becomes false; and the
\* result of a request after which a newer request was started never turns
\* isLoading from true to false while that newer request is in flight.
C29_LoadingEndsOnlyByLatest ==
  /\ isLoading ~> ~isLoading
  /\ [][\A k \in 1..MaxRequests :
          (/\ ResultArrives(k)
           /\ k < Len(requests)
           /\ requests[Len(requests)].pc # "done"
           /\ isLoading)
          => isLoading']_vars

\* C30: while isLoading is true no action of the sidebar (Generate button,
\* Enter key in the custom-prompt or chart-prompt textarea) starts a
\* request.
C30_NoRequestWhileLoading ==
  [][isLoading => ~RequestStarts]_vars

(***************************************************************************)
(* onModeSelect without a file handle (App.tsx 86-90).                     *)
(***************************************************************************)
\* C31: when file is null, onModeSelect sets apiError to the 'upload first'
\* message and leaves latestRequestRef, isLoading, activeMode, timecodeList
\* and textResponse unchanged; no request is started and no generateContent
\* call is made (the requests and their call counts are unchanged).
C31_NoFileOnlyReportsError ==
  [][\A mode \in Modes :
       (onModeSelect(mode) /\ IsNull(file))
       => /\ apiError' = Some(UploadFirstMessage)
          /\ UNCHANGED <<latestRequestRef, isLoading, activeMode,
                         timecodeList, textResponse>>
          /\ requests' = requests]_vars

\* the 'upload first' message is shown while an earlier request is still
\* loading and no file handle is held
C31_Witness ==
  /\ apiError = Some(UploadFirstMessage)
  /\ IsNull(file)
  /\ isLoading
  /\ latestRequestRef # now

(***************************************************************************)
(* Progress values of uploadFile (part_000 55-95) and the finally block of *)
(* handleFileUpload (App.tsx 217-220), checked under SpecUpload.           *)
(***************************************************************************)
\* a and b are the values one uploadFile invocation passed to onProgress
\* last, before and after a step
ProgressOrder(a, b) ==
  IF IsNull(a) THEN b \in {Null, Some(10)}
  ELSE IF a = Some(10) THEN b \in {Some(10), Some(50)}
  ELSE IF Val(a) \in 50..95
  THEN \/ b = a
       \/ b = Some(Val(a) + 5) /\ Val(a) + 5 <= 95
       \/ b \in {Some(100), Some(0)}
  ELSE b = a

\* C32: each uploadFile invocation reports 10, then 50, then values growing
\* by 5 and capped at 95 for as long as the polled state is PROCESSING; 100
\* only on a poll whose state is neither PROCESSING nor FAILED, 0 on FAILED;
\* every reported value lies in 0..100; and when the invocation of
\* handleFileUpload finishes, uploadProgress is 0 and isLoadingVideo false.
C32_ProgressValues ==
  [][/\ \A k \in 1..MaxUploads :
          /\ ProgressOrder(onProgress[k], onProgress'[k])
          /\ ~IsNull(onProgress'[k]) => Val(onProgress'[k]) \in 0..100
          /\ (onProgress'[k] = Some(100) /\ onProgress[k] # Some(100)) =>
               \E u \in uploads :
                 /\ u.url = k
                 /\ \E st \in FileStates \ {"PROCESSING", "FAILED"} :
                      GetResolved(u, st)
     /\ \A u \in uploads :
          /\ GetResolved(u, "PROCESSING") =>
               /\ ~IsNull(onProgress[u.url])
               /\ Val(onProgress[u.url]) \in 50..95
               /\ Val(onProgress'[u.url]) >= Val(onProgress[u.url])
               /\ Val(onProgress'[u.url]) <= 95
               /\ Val(onProgress'[u.url]) \in
                    {Val(onProgress[u.url]) + 5, 95}
          /\ GetResolved(u, "FAILED") => onProgress'[u.url] = Some(0)
          /\ (InFlight(uploads, u.url) /\ ~InFlight(uploads', u.url)) =>
               uploadProgress' = 0 /\ ~isLoadingVideo']_vars

\* one upload ended with FAILED and reported 0, a later one completed and
\* reported 100, and both invocations of handleFileUpload have finished
C32_Witness ==
  /\ onProgress[1] = Some(0)
  /\ onProgress[2] = Some(100)
  /\ uploads = {}
  /\ uploadProgress = 0
  /\ ~isLoadingVideo
  /\ file = Some(2)

(***************************************************************************)
(* Termination of uploads.  FairSpecUpload is SpecUpload in which, for     *)
(* every object URL, the upload call is answered and the service           *)
(* eventually reports a state other than PROCESSING (or a call throws).    *)
(***************************************************************************)
\* the uploadFile invocation for object URL k gets past an await for good:
\* the upload call resolves, a poll reports a state other than PROCESSING,
\* or a call rejects
UploadSettles(k) ==
  \E u \in uploads :
    /\ u.url = k
    /\ \/ UploadResolved(u)
       \/ \E st \in FileStates \ {"PROCESSING"} : GetResolved(u, st)
       \/ UploadRejected(u)

FairSpecUpload ==
  /\ SpecUpload
  /\ \A k \in 1..MaxUploads : WF_vars(UploadSettles(k))

\* C33: when the service eventually reports a state other than PROCESSING,
\* every uploadFile invocation eventually resolves or rejects and
\* isLoadingVideo eventually becomes false; a poll that reports PROCESSING
\* never ends the loop, however many polls came before: the invocation
\* awaits the next poll, is still in flight and isLoadingVideo is unchanged.
C33_UploadTermination ==
  /\ \A k \in 1..MaxUploads :
       InFlight(uploads, k) ~> ~InFlight(uploads, k)
  /\ isLoadingVideo ~> ~isLoadingVideo
  /\ [][\A u \in uploads :
          GetResolved(u, "PROCESSING") =>
            /\ \E v \in uploads' : v.url = u.url /\ v.pc = "get"
            /\ isLoadingVideo' = isLoadingVideo
            /\ file' = file /\ videoError' = videoError]_vars

\* the polling loop has reached the progress cap and is still polling
C33_Witness ==
  \E u \in uploads :
    /\ u.pc = "get"
    /\ u.progress = 95
    /\ onProgress[u.url] = Some(95)
    /\ isLoadingVideo

(***************************************************************************)
(* SpecSidebar: the mode requested for audio (App.tsx 440-462, 189-197).   *)
(* The user offers video and audio files and chooses among all modes; the  *)
(* clock stands still and no call throws.                                  *)
(***************************************************************************)
NextSidebar ==
  \/ \E type \in {"video", "audio"} : handleFileUpload(type)
  \/ \E u \in uploads : UploadResolved(u)
  \/ \E u \in uploads : \E st \in {"ACTIVE", "FAILED"} : GetResolved(u, st)
  \/ \E mode \in Modes : setSelectedMode(mode)
  \/ \E mode \in Modes : onModeSelect(mode)
  \/ \E k \in 1..MaxRequests : \E resp \in Responses : GenResolved(k, resp)
  \/ \E k \in 1..MaxRequests : BackoffElapsed(k)

SpecSidebar == Init /\ [][NextSidebar]_vars

\* C34: no onModeSelect('Table') step starts a request while mediaType is
\* 'audio', also when Table was selected for an earlier video and an audio
\* file was uploaded afterwards.
C34_TableNeverRequestedForAudio ==
  [][(onModeSelect("Table") /\ RequestStarts)
       => mediaType # Some("audio")]_vars

(***************************************************************************)
(* Timecodes of more than three components (part_001 341-350), checked     *)
(* under SpecUtils.                                                        *)
(***************************************************************************)
\* C35: for a colon-separated timecode of more than three components, all
\* of them numerals, timeToSecs returns c0*3600 + c1*60 + c2 of the first
\* three components and ignores the others; it does not fall back to 0.
C35_ExtraComponentsIgnored ==
  (utilOp.op = "timeToSecs" /\ ParsedInput.type = "string") =>
    LET c == Split(ParsedInput.str)
        v(j) == NumeralValue(c[j])
    IN (Len(c) > 3 /\ \A j \in 1..Len(c) : IsNumeral(c[j])) =>
         utilSecs = Fin(v(1) * 3600 + v(2) * 60 + v(3))

\* the four-component timecode 1:2:3:4 has been parsed to 3723 seconds
C35_Witness ==
  /\ utilOp.op = "timeToSecs"
  /\ ParsedInput = StrTC(<<"1", ":", "2", ":", "3", ":", "4">>)
  /\ utilSecs = Fin(3723)
  /\ utilSecs # Fin(0)

====
